---- MODULE Spec2Model ----
(***************************************************************************)
(* Model of src/content/taxonomies.rs: the grouping of pages into the tags *)
(* and categories taxonomies (Taxonomy::find_tags_and_categories,          *)
(* Taxonomy::new) and the two rendering entry points (render_single_item,  *)
(* render_list).                                                           *)
(*                                                                         *)
(* Representation of Rust values:                                          *)
(*   - a String the code groups on or slugifies (a category, a tag, a      *)
(*     slug) is a sequence of one-character strings, <<"G","o">>;          *)
(*     Display(s) is the text format!("{}", s) writes for it;              *)
(*   - a String the code only formats (labels, urls, template names) is a  *)
(*     TLA+ string;                                                        *)
(*   - Option<T> is a sequence of length at most one: <<>> is None and     *)
(*     <<v>> is Some(v);                                                   *)
(*   - HashMap<String, Vec<Page>> is a function whose domain is the set of *)
(*     keys; its iteration order is a nondeterministic choice at the place *)
(*     where the code iterates.                                            *)
(***************************************************************************)
EXTENDS Integers, Sequences, FiniteSets, TLC

VARIABLES all_pages, idx, tags, categories, pc,
          tags_taxonomy, categories_taxonomy,
          engine_calls, renders

vars == <<all_pages, idx, tags, categories, pc,
          tags_taxonomy, categories_taxonomy, engine_calls, renders>>

----------------------------------------------------------------------------
(* Bounds of the model.                                                    *)

\* longest input page sequence of the builder specification
MaxPages == 2
\* longest tag list of a page
MaxTags == 2
\* longest input page sequence of the rendering specification
RenderMaxPages == 1
\* number of render calls made on the built taxonomies
MaxRenders == 1

----------------------------------------------------------------------------
(* Input domains.                                                          *)

\* tag strings pages may declare: "Go" and "GO" differ only in case
TagNames == { <<"G","o">>, <<"G","O">> }
\* category strings pages may declare
CategoryNames == { <<"G","o">>, <<"W","e","b"," ","D","e","v">> }

None == <<>>
Some(v) == <<v>>

RECURSIVE SeqsUpTo(_, _)
SeqsUpTo(S, n) ==
    IF n = 0 THEN { <<>> }
    ELSE LET shorter == SeqsUpTo(S, n - 1)
         IN shorter \cup { Append(s, x) : s \in shorter, x \in S }

TagLists == SeqsUpTo(TagNames, MaxTags)

Page ==
    [meta : [category : {None} \cup {Some(n) : n \in CategoryNames},
             tags     : {None} \cup {Some(t) : t \in TagLists}]]

Configs == { [base_url |-> "https://a.io"], [base_url |-> "http://b.org/blog"] }

\* what the engine may answer to a render call
EngineOutcomes ==
    { [ok |-> TRUE,  val |-> "<html>"],
      [ok |-> TRUE,  val |-> ""],
      [ok |-> FALSE, val |-> "Template not found"] }

----------------------------------------------------------------------------
(* Strings.                                                                *)

UpperCase == <<"A","B","C","D","E","F","G","H","I","J","K","L","M",
               "N","O","P","Q","R","S","T","U","V","W","X","Y","Z">>
LowerCase == <<"a","b","c","d","e","f","g","h","i","j","k","l","m",
               "n","o","p","q","r","s","t","u","v","w","x","y","z">>
Digits    == <<"0","1","2","3","4","5","6","7","8","9">>

Range(s) == { s[i] : i \in DOMAIN s }

RECURSIVE Display(_)
Display(s) == IF s = <<>> THEN "" ELSE Head(s) \o Display(Tail(s))

to_ascii_lowercase(c) ==
    LowerCase[CHOOSE i \in DOMAIN UpperCase : UpperCase[i] = c]

\* slug::slugify: ASCII letters are lowercased, digits kept, every run of
\* other characters becomes one "-", and no "-" leads or trails.
RECURSIVE slugify_from(_, _, _)
slugify_from(s, slug, prev_is_dash) ==
    IF s = <<>> THEN slug
    ELSE LET c == Head(s) IN
         IF c \in Range(LowerCase) \cup Range(Digits)
           THEN slugify_from(Tail(s), Append(slug, c), FALSE)
         ELSE IF c \in Range(UpperCase)
           THEN slugify_from(Tail(s), Append(slug, to_ascii_lowercase(c)), FALSE)
         ELSE IF prev_is_dash
           THEN slugify_from(Tail(s), slug, TRUE)
           ELSE slugify_from(Tail(s), Append(slug, "-"), TRUE)

slugify(name) ==
    LET raw == slugify_from(name, <<>>, TRUE)
    IN IF raw # <<>> /\ raw[Len(raw)] = "-"
         THEN SubSeq(raw, 1, Len(raw) - 1)
         ELSE raw

----------------------------------------------------------------------------
(* TaxonomyItem and Taxonomy.                                              *)

TaxonomyKind == { "Tags", "Categories" }

TaxonomyItem_new(name, pages) ==
    [name |-> name, slug |-> slugify(name), pages |-> pages]

EmptyMap == [k \in {} |-> <<>>]

\* entry_push with the page put in front of the bucket
entry_push_front(map, key, page) ==
    LET entry == IF key \in DOMAIN map THEN map ELSE map @@ (key :> <<>>)
    IN [entry EXCEPT ![key] = <<page>> \o @]

\* entry_push that only creates the bucket when the key is new
entry_push_skip_first(map, key, page) ==
    IF key \in DOMAIN map
      THEN [map EXCEPT ![key] = Append(@, page)]
      ELSE map @@ (key :> <<>>)

\* entry_push that leaves out a page the bucket already holds
entry_push_dedup(map, key, page) ==
    LET entry == IF key \in DOMAIN map THEN map ELSE map @@ (key :> <<>>)
    IN IF page \in Range(entry[key])
         THEN entry
         ELSE [entry EXCEPT ![key] = Append(@, page)]

\* map.entry(key).or_insert_with(|| vec![]).push(page)
entry_push(map, key, page) ==
    LET entry == IF key \in DOMAIN map THEN map ELSE map @@ (key :> <<>>)
    IN [entry EXCEPT ![key] = Append(@, page)]

\* scan_tags that stops after the first tag of the list
scan_tags_first_only(map, t, page) ==
    IF t = <<>> THEN map ELSE entry_push(map, Head(t), page)

\* scan_tags that keys the buckets by the slug of the tag
RECURSIVE scan_tags_by_slug(_, _, _)
scan_tags_by_slug(map, t, page) ==
    IF t = <<>> THEN map
    ELSE scan_tags_by_slug(entry_push(map, slugify(Head(t)), page), Tail(t), page)

\* for tag in t { tags.entry(tag.to_string())...push(page.clone()) }
RECURSIVE scan_tags(_, _, _)
scan_tags(map, t, page) ==
    IF t = <<>> THEN map
    ELSE scan_tags(entry_push(map, Head(t), page), Tail(t), page)

\* if let Some(ref category) = page.meta.category { ... }
scan_category(map, page) ==
    IF page.meta.category # None
      THEN entry_push(map, page.meta.category[1], page)
      ELSE map

\* the orders in which a HashMap with key set S may iterate
IterationOrders(S) ==
    { o \in [1..Cardinality(S) -> S] : \A i, j \in DOMAIN o : o[i] = o[j] => i = j }

\* insertion of x into a sequence sorted by cmp, after every element that
\* does not compare greater: the sort is stable
RECURSIVE insert_sorted(_, _)
insert_sorted(sorted, x) ==
    IF sorted = <<>> THEN <<x>>
    ELSE IF Len(x.pages) > Len(Head(sorted).pages)
           THEN <<x>> \o sorted
           ELSE <<Head(sorted)>> \o insert_sorted(Tail(sorted), x)

\* sort_by with the comparison the other way round: a.pages.len().cmp(&b.pages.len())
RECURSIVE insert_sorted_ascending(_, _)
insert_sorted_ascending(sorted, x) ==
    IF sorted = <<>> THEN <<x>>
    ELSE IF Len(x.pages) < Len(Head(sorted).pages)
           THEN <<x>> \o sorted
           ELSE <<Head(sorted)>> \o insert_sorted_ascending(Tail(sorted), x)

RECURSIVE sort_by_ascending(_)
sort_by_ascending(items) ==
    IF items = <<>> THEN <<>>
    ELSE insert_sorted_ascending(sort_by_ascending(SubSeq(items, 1, Len(items) - 1)),
                                 items[Len(items)])

\* sorted_items.sort_by(|a, b| b.pages.len().cmp(&a.pages.len()))
RECURSIVE sort_by(_)
sort_by(items) ==
    IF items = <<>> THEN <<>>
    ELSE insert_sorted(sort_by(SubSeq(items, 1, Len(items) - 1)), items[Len(items)])

\* Taxonomy::new, with the order in which `for (name, pages) in &items` runs
Taxonomy_new(kind, items, order) ==
    LET sorted_items == [i \in DOMAIN order |-> TaxonomyItem_new(order[i], items[order[i]])]
    IN [kind |-> kind, items |-> sort_by(sorted_items)]

len(self) == Len(self.items)

get_single_item_name(self) ==
    IF self.kind = "Tags" THEN "tag" ELSE "category"

get_list_name(self) ==
    IF self.kind = "Tags" THEN "tags" ELSE "categories"

----------------------------------------------------------------------------
(* Rendering.                                                              *)

\* Config::make_permalink: the absolute url of a path of the site
make_permalink(config, path) == config.base_url \o "/" \o path

\* ResultExt::chain_err: an error is wrapped under a new message, a success
\* is passed through
chain_err(ret, message) ==
    IF ret.ok
      THEN [ok |-> TRUE, val |-> ret.val]
      ELSE [ok |-> FALSE, val |-> message, cause |-> ret.val]

\* render_single_item_call that names the template after the list
render_single_item_call_list_template(self, item, config) ==
    LET name == get_single_item_name(self)
        context ==
            ("config" :> config) @@ (name :> item)
            @@ ("current_url" :>
                  make_permalink(config, name \o "/" \o Display(item.slug)))
            @@ ("current_path" :> "/" \o name \o "/" \o Display(item.slug))
    IN [template |-> get_list_name(self) \o ".html", context |-> context]

\* render_single_item up to the engine call: the template name and context
render_single_item_call(self, item, config) ==
    LET name == get_single_item_name(self)
        context ==
            ("config" :> config) @@ (name :> item)
            @@ ("current_url" :>
                  make_permalink(config, name \o "/" \o Display(item.slug)))
            @@ ("current_path" :> "/" \o name \o "/" \o Display(item.slug))
    IN [template |-> name \o ".html", context |-> context]

\* render_single_item's result from the engine's answer
render_single_item_result(self, ret) ==
    chain_err(ret, "Failed to render " \o get_single_item_name(self) \o " page.")

\* render_list up to the engine call
render_list_call(self, config) ==
    LET name == get_list_name(self)
        context ==
            ("config" :> config) @@ (name :> self.items)
            @@ ("current_url" :> make_permalink(config, name))
            @@ ("current_path" :> name)
    IN [template |-> name \o ".html", context |-> context]

\* render_list_result that swallows the engine's error
render_list_result_swallowed(self, ret) ==
    IF ret.ok THEN [ok |-> TRUE, val |-> ret.val] ELSE [ok |-> TRUE, val |-> ""]

\* render_list's result from the engine's answer
render_list_result(self, ret) ==
    chain_err(ret, "Failed to render " \o get_list_name(self) \o " page.")

----------------------------------------------------------------------------
(* The state machine.                                                      *)

NoTaxonomy(kind) == [kind |-> kind, items |-> <<>>]

InitWith(inputs) ==
    /\ all_pages \in inputs
    /\ idx = 0
    /\ tags = EmptyMap
    /\ categories = EmptyMap
    /\ pc = "scan"
    /\ tags_taxonomy = NoTaxonomy("Tags")
    /\ categories_taxonomy = NoTaxonomy("Categories")
    /\ engine_calls = <<>>
    /\ renders = <<>>

\* the builder on every input of up to MaxPages pages
InitBuilder == InitWith(SeqsUpTo(Page, MaxPages))

\* the builder on up to RenderMaxPages pages, followed by render calls
Init == InitWith(SeqsUpTo(Page, RenderMaxPages))

\* one iteration of `for page in all_pages`
ScanPage ==
    /\ pc = "scan"
    /\ idx < Len(all_pages)
    /\ LET page == all_pages[idx + 1] IN
         /\ categories' = scan_category(categories, page)
         /\ tags' = IF page.meta.tags # None
                      THEN scan_tags(tags, page.meta.tags[1], page)
                      ELSE tags
    /\ idx' = idx + 1
    /\ UNCHANGED <<all_pages, pc, tags_taxonomy, categories_taxonomy,
                   engine_calls, renders>>

\* the loop is over: both taxonomies are made and returned
Build ==
    /\ pc = "scan"
    /\ idx = Len(all_pages)
    /\ \E tag_order \in IterationOrders(DOMAIN tags),
          category_order \in IterationOrders(DOMAIN categories) :
         /\ tags_taxonomy' = Taxonomy_new("Tags", tags, tag_order)
         /\ categories_taxonomy' =
                Taxonomy_new("Categories", categories, category_order)
    /\ pc' = "built"
    /\ UNCHANGED <<all_pages, idx, tags, categories, engine_calls, renders>>

Taxonomies == { tags_taxonomy, categories_taxonomy }

RenderSingleItem ==
    /\ pc = "built"
    /\ Len(renders) < MaxRenders
    /\ \E self \in Taxonomies, config \in Configs, ret \in EngineOutcomes :
         \E i \in DOMAIN self.items :
           LET item == self.items[i]
               call == render_single_item_call(self, item, config)
           IN /\ engine_calls' = Append(engine_calls,
                    [template |-> call.template, context |-> call.context,
                     ret |-> ret])
              /\ renders' = Append(renders,
                    [op |-> "render_single_item", kind |-> self.kind,
                     item |-> <<item>>, config |-> config,
                     result |-> render_single_item_result(self, ret)])
    /\ UNCHANGED <<all_pages, idx, tags, categories, pc,
                   tags_taxonomy, categories_taxonomy>>

RenderList ==
    /\ pc = "built"
    /\ Len(renders) < MaxRenders
    /\ \E self \in Taxonomies, config \in Configs, ret \in EngineOutcomes :
         LET call == render_list_call(self, config)
         IN /\ engine_calls' = Append(engine_calls,
                  [template |-> call.template, context |-> call.context,
                   ret |-> ret])
            /\ renders' = Append(renders,
                  [op |-> "render_list", kind |-> self.kind,
                   item |-> <<>>, config |-> config,
                   result |-> render_list_result(self, ret)])
    /\ UNCHANGED <<all_pages, idx, tags, categories, pc,
                   tags_taxonomy, categories_taxonomy>>

NextBuilder == ScanPage \/ Build

Next == ScanPage \/ Build \/ RenderSingleItem \/ RenderList

SpecBuilder == InitBuilder /\ [][NextBuilder]_vars

Spec == Init /\ [][Next]_vars

----------------------------------------------------------------------------
(* Vocabulary of the properties.                                           *)

Go == <<"G","o">>
GO == <<"G","O">>

Returned(kind) == IF kind = "Tags" THEN tags_taxonomy ELSE categories_taxonomy

\* the classification strings a page declares for a kind, in scan order
DeclaredBy(kind, page) ==
    IF kind = "Tags"
      THEN (IF page.meta.tags = None THEN <<>> ELSE page.meta.tags[1])
      ELSE page.meta.category

\* the page-to-classification associations of the input, in scan order
RECURSIVE Associations(_, _)
Associations(kind, pages) ==
    IF pages = <<>> THEN <<>>
    ELSE LET d == DeclaredBy(kind, Head(pages))
         IN [i \in DOMAIN d |-> <<d[i], Head(pages)>>]
              \o Associations(kind, Tail(pages))

\* the (item name, page) pairs of a sequence of items, item after item
RECURSIVE ItemPairs(_)
ItemPairs(items) ==
    IF items = <<>> THEN <<>>
    ELSE [i \in DOMAIN Head(items).pages |-> <<Head(items).name, Head(items).pages[i]>>]
           \o ItemPairs(Tail(items))

Occurrences(s, x) == Cardinality({ i \in DOMAIN s : s[i] = x })

SameMultiset(s, t) ==
    \A x \in Range(s) \cup Range(t) : Occurrences(s, x) = Occurrences(t, x)

\* the items of a taxonomy whose page list holds the page
ItemsHolding(kind, page) ==
    { i \in DOMAIN Returned(kind).items : page \in Range(Returned(kind).items[i].pages) }

Built == pc = "built"

----------------------------------------------------------------------------
(* Claims about the builder, checked under SpecBuilder.                    *)

\* C1 as stated: once the taxonomies are returned, every page with a
\* category is in the page list of exactly one Categories item and every
\* page whose tag list has K entries is in exactly K distinct Tags items,
\* repeated tag strings included.
C1_AsStated ==
    Built =>
      \A i \in DOMAIN all_pages :
        LET p == all_pages[i] IN
          /\ p.meta.category # None =>
               Cardinality(ItemsHolding("Categories", p)) = 1
          /\ p.meta.tags # None =>
               Cardinality(ItemsHolding("Tags", p)) = Len(p.meta.tags[1])

\* C1 amended: every page with a category is in the page list of exactly
\* one Categories item, and every page with a tag list is in exactly as
\* many distinct Tags items as its list has distinct strings (K items when
\* none of its K entries repeats).
C1_DistinctTagItems ==
    Built =>
      \A i \in DOMAIN all_pages :
        LET p == all_pages[i] IN
          /\ p.meta.category # None =>
               Cardinality(ItemsHolding("Categories", p)) = 1
          /\ p.meta.tags # None =>
               Cardinality(ItemsHolding("Tags", p))
                 = Cardinality(Range(p.meta.tags[1]))

\* a page with a category and the tag list ["Go", "Go"] and a page with the
\* tag list ["Go", "GO"] went through the builder
C1_Witness ==
    /\ Built
    /\ \E i, j \in DOMAIN all_pages :
         /\ all_pages[i].meta.category # None
         /\ all_pages[i].meta.tags = Some(<<Go, Go>>)
         /\ Cardinality(ItemsHolding("Tags", all_pages[i])) = 1
         /\ all_pages[j].meta.tags = Some(<<Go, GO>>)
         /\ Cardinality(ItemsHolding("Tags", all_pages[j])) = 2

\* C2: in each returned taxonomy no two items share a name, the item names
\* are exactly the strings some input page declares, and the (item name,
\* page) pairs are, with multiplicity, the page-to-classification
\* associations of the input.
C2_ItemsAreTheAssociations ==
    Built =>
      \A kind \in TaxonomyKind :
        LET items == Returned(kind).items
            assoc == Associations(kind, all_pages)
        IN /\ \A i, j \in DOMAIN items : items[i].name = items[j].name => i = j
           /\ { items[i].name : i \in DOMAIN items } = { a[1] : a \in Range(assoc) }
           /\ SameMultiset(ItemPairs(items), assoc)

\* one page is held twice by one Tags item and also by another Tags item
C2_Witness ==
    /\ Built
    /\ \E i, j \in DOMAIN tags_taxonomy.items :
         /\ i # j
         /\ Len(tags_taxonomy.items[i].pages) >= 2
         /\ tags_taxonomy.items[i].pages[1] = tags_taxonomy.items[i].pages[2]
         /\ tags_taxonomy.items[i].pages[1] \in Range(tags_taxonomy.items[j].pages)

\* C3: in both returned taxonomies the items are in non-increasing order of
\* page count, whatever order the maps iterated in.
C3_SortedByCount ==
    Built =>
      \A kind \in TaxonomyKind :
        LET items == Returned(kind).items
        IN \A i \in 1..(Len(items) - 1) :
             Len(items[i].pages) >= Len(items[i + 1].pages)

\* two Tags items of different page counts were returned
C3_Witness ==
    /\ Built
    /\ Len(tags_taxonomy.items) = 2
    /\ Len(tags_taxonomy.items[1].pages) > Len(tags_taxonomy.items[2].pages)

\* C8: grouping is by exact string equality.  Every item keeps an authored
\* name and holds exactly the pages declaring that very string, each
\* declared string has one item, the slug is slugify of the name, and two
\* declared names of equal slug ("Go", "GO") give two items of that slug.
C8_GroupedByExactName ==
    Built =>
      \A kind \in TaxonomyKind :
        LET items == Returned(kind).items
            assoc == Range(Associations(kind, all_pages))
        IN /\ \A i \in DOMAIN items :
                /\ items[i].slug = slugify(items[i].name)
                /\ Range(items[i].pages) = { a[2] : a \in { b \in assoc : b[1] = items[i].name } }
           /\ \A a \in assoc :
                Cardinality({ i \in DOMAIN items : items[i].name = a[1] }) = 1
           /\ \A a, b \in assoc :
                (a[1] # b[1] /\ slugify(a[1]) = slugify(b[1])) =>
                   \E i, j \in DOMAIN items :
                      /\ i # j
                      /\ items[i].name = a[1] /\ items[j].name = b[1]
                      /\ items[i].slug = items[j].slug

\* the Tags items "Go" and "GO" were both returned, each with the slug "go",
\* from two pages that do not share a tag
C8_Witness ==
    /\ Built
    /\ \E i, j \in DOMAIN tags_taxonomy.items :
         /\ tags_taxonomy.items[i].name = Go
         /\ tags_taxonomy.items[j].name = GO
         /\ tags_taxonomy.items[i].slug = <<"g","o">>
         /\ tags_taxonomy.items[j].slug = <<"g","o">>
         /\ Range(tags_taxonomy.items[i].pages) \cap Range(tags_taxonomy.items[j].pages) = {}

\* C9: the pages of every returned item are the pages declaring its name,
\* in the order the scan met them.
C9_PagesInScanOrder ==
    Built =>
      \A kind \in TaxonomyKind :
        LET items == Returned(kind).items
            assoc == Associations(kind, all_pages)
        IN \A i \in DOMAIN items :
             LET mine == SelectSeq(assoc, LAMBDA a : a[1] = items[i].name)
             IN items[i].pages = [k \in DOMAIN mine |-> mine[k][2]]

\* an item holds two different pages, the first of the input first, and it
\* is not the first item of its taxonomy
C9_Witness ==
    /\ Built
    /\ Len(all_pages) = 2
    /\ all_pages[1] # all_pages[2]
    /\ \E i \in DOMAIN categories_taxonomy.items :
         categories_taxonomy.items[i].pages = all_pages
    /\ \E i \in DOMAIN tags_taxonomy.items :
         i > 1 /\ tags_taxonomy.items[i].pages = <<all_pages[2]>>

\* C10: at every step of the scan every bucket of both maps holds a page;
\* every returned item holds a page; the returned taxonomies are of kinds
\* Tags and Categories; and when no scanned page declares a category (a
\* tag), as for the empty input, the Categories (Tags) taxonomy has no item.
C10_NoEmptyItem ==
    /\ \A k \in DOMAIN tags : Len(tags[k]) >= 1
    /\ \A k \in DOMAIN categories : Len(categories[k]) >= 1
    /\ tags_taxonomy.kind = "Tags"
    /\ categories_taxonomy.kind = "Categories"
    /\ \A kind \in TaxonomyKind :
         /\ \A i \in DOMAIN Returned(kind).items :
              Len(Returned(kind).items[i].pages) >= 1
         /\ (Built /\ Associations(kind, all_pages) = <<>>) =>
              len(Returned(kind)) = 0

\* a page with no category and an empty tag list was scanned before a page
\* that opened a bucket, and the taxonomies were returned
C10_Witness ==
    /\ Built
    /\ Len(all_pages) = 2
    /\ all_pages[1].meta = [category |-> None, tags |-> Some(<<>>)]
    /\ len(tags_taxonomy) = 0
    /\ len(categories_taxonomy) = 1

----------------------------------------------------------------------------
(* Claims about rendering, checked under Spec.                             *)

SingularLabel(kind) == IF kind = "Tags" THEN "tag" ELSE "category"
PluralLabel(kind) == IF kind = "Tags" THEN "tags" ELSE "categories"

\* C4 as stated: render_single_item gives the engine a current_url of
\* make_permalink("<plural label>/<slug>") and a current_path of
\* "/<plural label>/<slug>".
C4_AsStated ==
    \A i \in DOMAIN renders :
      renders[i].op = "render_single_item" =>
        LET r == renders[i]
            path == PluralLabel(r.kind) \o "/" \o Display(r.item[1].slug)
            context == engine_calls[i].context
        IN /\ context["current_url"] = make_permalink(r.config, path)
           /\ context["current_path"] = "/" \o path

\* C5: every render call reaches the engine exactly once, and the template
\* it names depends on the operation and the kind only: "tag.html" and
\* "category.html" for render_single_item, "tags.html" and
\* "categories.html" for render_list.
C5_TemplateByKind ==
    /\ Len(engine_calls) = Len(renders)
    /\ \A i \in DOMAIN renders :
         engine_calls[i].template =
           CASE renders[i].op = "render_single_item" /\ renders[i].kind = "Tags" -> "tag.html"
             [] renders[i].op = "render_single_item" /\ renders[i].kind = "Categories" -> "category.html"
             [] renders[i].op = "render_list" /\ renders[i].kind = "Tags" -> "tags.html"
             [] renders[i].op = "render_list" /\ renders[i].kind = "Categories" -> "categories.html"

\* an item of the Categories taxonomy was rendered
C5_Witness ==
    \E i \in DOMAIN renders :
      /\ renders[i].op = "render_single_item"
      /\ renders[i].kind = "Categories"
      /\ engine_calls[i].template = "category.html"

\* C6: a render call fails exactly when the engine fails; the error wraps
\* the engine's error under "Failed to render <label> page." (singular
\* label for render_single_item, plural for render_list); a success returns
\* the engine's output unchanged; the engine is asked once.
C6_ErrorIffEngineFails ==
    /\ Len(engine_calls) = Len(renders)
    /\ \A i \in DOMAIN renders :
         LET r == renders[i].result
             e == engine_calls[i].ret
             label == IF renders[i].op = "render_single_item"
                        THEN SingularLabel(renders[i].kind)
                        ELSE PluralLabel(renders[i].kind)
         IN /\ r.ok <=> e.ok
            /\ e.ok => r = [ok |-> TRUE, val |-> e.val]
            /\ ~e.ok => r = [ok |-> FALSE,
                             val |-> "Failed to render " \o label \o " page.",
                             cause |-> e.val]

\* the engine failed on the list of tags
C6_Witness ==
    \E i \in DOMAIN renders :
      /\ renders[i].op = "render_list"
      /\ renders[i].kind = "Tags"
      /\ ~engine_calls[i].ret.ok
      /\ ~renders[i].result.ok

\* C7 as stated: render_list gives the engine the config, the items in
\* their sorted order under the plural label, a current_url of
\* make_permalink("<plural label>") and a current_path of "/<plural label>".
C7_AsStated ==
    \A i \in DOMAIN renders :
      renders[i].op = "render_list" =>
        LET r == renders[i]
            name == PluralLabel(r.kind)
            context == engine_calls[i].context
        IN /\ DOMAIN context = {"config", name, "current_url", "current_path"}
           /\ context["config"] = r.config
           /\ context[name] = Returned(r.kind).items
           /\ context["current_url"] = make_permalink(r.config, name)
           /\ context["current_path"] = "/" \o name

====
